---- MODULE Spec2Model ----
(***************************************************************************)
(* Model of the /upload pipeline of src/index.ts: probe, ladder selection, *)
(* concurrent encode jobs joined by Promise.all, sequential publication to *)
(* the content store, response and cleanup of the original upload.         *)
(*                                                                         *)
(* One action is one turn of the Node.js event loop: the I/O callback that *)
(* fires together with every promise continuation it makes runnable, up to *)
(* the next await on an external call.  The handler operations performed   *)
(* inside one turn are appended to ops[r] in program order.                *)
(***************************************************************************)
EXTENDS Integers, Sequences, FiniteSets, TLC

\* ------------------------------------------------------------------ bounds
MaxClock == 2

Requests == {1, 2}

\* ------------------------------------------------ strings as the code uses
\* A string the code takes apart is a sequence of its characters.
resolutions ==
    << [name |-> "1080p", bitrate |-> "5000k",
        size |-> <<"1", "9", "2", "0", "x", "1", "0", "8", "0">>],
       [name |-> "720p", bitrate |-> "2500k",
        size |-> <<"1", "2", "8", "0", "x", "7", "2", "0">>],
       [name |-> "480p", bitrate |-> "1000k",
        size |-> <<"8", "5", "4", "x", "4", "8", "0">>],
       [name |-> "360p", bitrate |-> "600k",
        size |-> <<"6", "4", "0", "x", "3", "6", "0">>] >>

Digits == <<"0", "1", "2", "3", "4", "5", "6", "7", "8", "9">>

IsDigit(c) == \E d \in 1..Len(Digits) : Digits[d] = c

DigitVal(c) == (CHOOSE d \in 1..Len(Digits) : Digits[d] = c) - 1

\* String.prototype.split with a one-character separator.
RECURSIVE Split(_, _)
Split(s, sep) ==
    IF \E i \in 1..Len(s) : s[i] = sep
    THEN LET i == CHOOSE k \in 1..Len(s) :
                      s[k] = sep /\ \A j \in 1..(k - 1) : s[j] # sep
         IN  <<SubSeq(s, 1, i - 1)>> \o Split(SubSeq(s, i + 1, Len(s)), sep)
    ELSE <<s>>

\* parseInt: the value of the longest prefix of decimal digits, NaN if none.
RECURSIVE ParseDigits(_, _)
ParseDigits(s, acc) ==
    IF s # <<>> /\ IsDigit(Head(s))
    THEN ParseDigits(Tail(s), acc * 10 + DigitVal(Head(s)))
    ELSE acc

ParseInt(s) ==
    IF s # <<>> /\ IsDigit(Head(s))
    THEN [nan |-> FALSE, val |-> ParseDigits(s, 0)]
    ELSE [nan |-> TRUE, val |-> 0]

\* size.split("x")[1]; an index past the end reads undefined, parsed as NaN.
HeightOf(size) ==
    LET parts == Split(size, "x")
    IN  ParseInt(IF Len(parts) >= 2 THEN parts[2] ELSE <<>>)

\* The filter with a strict comparison only.
SelectedStrictly(size, inputHeight) ==
    LET height == HeightOf(size)
    IN  ~height.nan /\ height.val < inputHeight

\* The filter predicate of transcodeVideo (comparisons with NaN are false).
Selected(size, inputHeight) ==
    LET height == HeightOf(size)
    IN  /\ ~height.nan
        /\ (height.val <= inputHeight \/ height.val = inputHeight)

availableResolutions(inputHeight) ==
    SelectSeq(resolutions, LAMBDA res : Selected(res.size, inputHeight))

\* ------------------------------------------------------------ request input
\* What the client sends and what the inspection call reports about it.
Audio == [codec_type |-> "audio", hasHeight |-> FALSE, height |-> 0]

Video(h) == [codec_type |-> "video", hasHeight |-> TRUE, height |-> h]

VideoNoHeight == [codec_type |-> "video", hasHeight |-> FALSE, height |-> 0]

Heights == {100, 300, 359, 360, 500, 719, 720, 1079, 1080, 2160}

Metadata ==
    {<<>>, <<Audio>>, <<VideoNoHeight>>, <<Audio, Video(0)>>,
     <<Video(500), Video(1080)>>}
      \cup {<<Audio, Video(h)>> : h \in Heights}

NoFile == [file |-> FALSE, streams |-> <<>>]

Uploads == {NoFile} \cup {[file |-> TRUE, streams |-> m] : m \in Metadata}

\* Uploads whose ladder has at most two entries.
LightUploads ==
    {NoFile} \cup {[file |-> TRUE, streams |-> m] :
                     m \in {<<Audio>>, <<Audio, Video(300)>>, <<Audio, Video(500)>>}}

\* -------------------------------------------------------------------- state
VARIABLES
    now,              \* the value Date.now() last returned
    fsys,             \* the paths that exist on disk
    upload,           \* per request: the client's payload (input)
    pc,               \* per request: where the handler is suspended
    outputFolder,     \* per request: the handler's outputFolder
    inputHeight,      \* per request: the probed height (0 before the probe)
    jobs,             \* per request: the encode jobs, in launch order
    transcodedFiles,  \* per request: transcodeVideo's result array
    storeCalls,       \* per request: the store calls started, in order
    ipfsCIDs,         \* per request: the handler's ipfsCIDs object
    responses,        \* per request: the responses sent, in order
    ops               \* per request: handler operations, in program order

vars == <<now, fsys, upload, pc, outputFolder, inputHeight, jobs,
          transcodedFiles, storeCalls, ipfsCIDs, responses, ops>>

outputDir == "output"

PathJoin(dir, file) == dir \o "/" \o file

\* multer stores each upload under uploads/ with a name of its own.
inputFile(r) == PathJoin("uploads", "upload" \o ToString(r))

EmptyObject == [k \in {} |-> ""]

InitWith(U1, U2) ==
    /\ now = 1
    /\ fsys = {outputDir}
    /\ upload \in {u \in [Requests -> U1 \cup U2] : u[1] \in U1 /\ u[2] \in U2}
    /\ pc = [r \in Requests |-> "idle"]
    /\ outputFolder = [r \in Requests |-> ""]
    /\ inputHeight = [r \in Requests |-> 0]
    /\ jobs = [r \in Requests |-> <<>>]
    /\ transcodedFiles = [r \in Requests |-> <<>>]
    /\ storeCalls = [r \in Requests |-> <<>>]
    /\ ipfsCIDs = [r \in Requests |-> EmptyObject]
    /\ responses = [r \in Requests |-> <<>>]
    /\ ops = [r \in Requests |-> <<>>]

\* One request with any payload, next to a request without a file.
Init == InitWith(Uploads, {NoFile})

\* Two requests in flight together, each with a short ladder.
InitTwo == InitWith(LightUploads, LightUploads)

\* ------------------------------------------------ pieces of the handler
\* A thrown value is an Error object or, from the probe, a bare string.
ErrorObject(message) == [kind |-> "Error", message |-> message]

StringValue(text) == [kind |-> "string", text |-> text]

\* The catch block's response; res.json drops a field that is undefined,
\* and a string has no message property.
CatchResponse(error) ==
    IF error.kind = "Error"
    THEN [status |-> 500, error |-> "Processing failed",
          details |-> error.message]
    ELSE [status |-> 500, error |-> "Processing failed"]

SuccessResponse(cids) ==
    [status |-> 200, message |-> "Processing complete", files |-> cids]

\* A finally block that leaves the file where it is.
CleanupKeepsFile(fs, r, unlinkOk) == fs

\* A finally block that also clears the request's output folder.
CleanupRemovesOutputs(fs, r, unlinkOk) ==
    IF inputFile(r) \in fs /\ unlinkOk
    THEN fs \ ({inputFile(r), outputFolder[r]}
                 \cup {jobs[r][i].outputFilePath : i \in 1..Len(jobs[r])})
    ELSE fs

\* The finally block on the disk fs: unlinkSync removes the file or throws.
Cleanup(fs, r, unlinkOk) ==
    IF inputFile(r) \in fs /\ unlinkOk THEN fs \ {inputFile(r)} ELSE fs

CleanupOps(fs, r, unlinkOk) ==
    IF inputFile(r) \in fs
    THEN <<[op |-> "unlink", path |-> inputFile(r), ok |-> unlinkOk]>>
    ELSE <<>>

\* A finally block that reports a failed deletion to the client.
FinishEscalates(r, fs, pre, resp, unlinkOk) ==
    /\ responses' = [responses EXCEPT ![r] =
          IF inputFile(r) \in fs /\ ~unlinkOk
          THEN @ \o <<resp, [status |-> 500, error |-> "Cleanup failed"]>>
          ELSE Append(@, resp)]
    /\ fsys' = Cleanup(fs, r, unlinkOk)
    /\ ops' = [ops EXCEPT ![r] =
                  @ \o pre \o <<[op |-> "respond", status |-> resp.status]>>
                    \o CleanupOps(fs, r, unlinkOk)]
    /\ pc' = [pc EXCEPT ![r] = "done"]

\* The handler sends resp (from the try or the catch block) and then runs the
\* finally block; pre are the operations of this turn that came before.
Finish(r, fs, pre, resp, unlinkOk) ==
    /\ responses' = [responses EXCEPT ![r] = Append(@, resp)]
    /\ fsys' = Cleanup(fs, r, unlinkOk)
    /\ ops' = [ops EXCEPT ![r] =
                  @ \o pre \o <<[op |-> "respond", status |-> resp.status]>>
                    \o CleanupOps(fs, r, unlinkOk)]
    /\ pc' = [pc EXCEPT ![r] = "done"]

\* ------------------------------------------------------------------ actions
\* A handler whose no-file branch responds and then falls through.
ReceiveFallsThrough(r) ==
    /\ pc[r] = "idle"
    /\ \E t \in now..MaxClock :
         /\ now' = t
         /\ fsys' = IF upload[r].file THEN fsys \cup {inputFile(r)} ELSE fsys
         /\ outputFolder' = [outputFolder EXCEPT ![r] =
                PathJoin(outputDir, ToString(t))]
         /\ responses' = [responses EXCEPT ![r] =
                IF upload[r].file THEN @
                ELSE Append(@, [status |-> 400, error |-> "No file uploaded"])]
         /\ ops' = [ops EXCEPT ![r] =
                IF upload[r].file THEN Append(@, [op |-> "ffprobe"])
                ELSE @ \o <<[op |-> "respond", status |-> 400],
                             [op |-> "ffprobe"]>>]
         /\ pc' = [pc EXCEPT ![r] = "probing"]
    /\ UNCHANGED <<upload, inputHeight, jobs, transcodedFiles, storeCalls,
                   ipfsCIDs>>

\* app.post("/upload"): the request arrives, multer has stored its file.
Receive(r) ==
    /\ pc[r] = "idle"
    /\ IF ~upload[r].file
       THEN /\ responses' = [responses EXCEPT ![r] =
                   Append(@, [status |-> 400, error |-> "No file uploaded"])]
            /\ ops' = [ops EXCEPT ![r] =
                   Append(@, [op |-> "respond", status |-> 400])]
            /\ pc' = [pc EXCEPT ![r] = "done"]
            /\ UNCHANGED <<now, fsys, outputFolder>>
       ELSE \E t \in now..MaxClock :
            /\ now' = t
            /\ fsys' = fsys \cup {inputFile(r)}
            /\ outputFolder' = [outputFolder EXCEPT ![r] =
                   PathJoin(outputDir, ToString(t))]
            /\ ops' = [ops EXCEPT ![r] = Append(@, [op |-> "ffprobe"])]
            /\ pc' = [pc EXCEPT ![r] = "probing"]
            /\ UNCHANGED responses
    /\ UNCHANGED <<upload, inputHeight, jobs, transcodedFiles, storeCalls,
                   ipfsCIDs>>

\* ffprobe calls back with an error: getVideoResolution rejects with it.
ProbeError(r) ==
    /\ pc[r] = "probing"
    /\ \E unlinkOk \in BOOLEAN :
         Finish(r, fsys, <<>>, CatchResponse(ErrorObject("ffprobe failed")),
                unlinkOk)
    /\ UNCHANGED <<now, upload, outputFolder, inputHeight, jobs,
                   transcodedFiles, storeCalls, ipfsCIDs>>

\* The sequences of n readings of a clock that never runs backwards.
ClockReadings(n) ==
    {ts \in [1..n -> now..MaxClock] :
        \A i \in 1..n, j \in 1..n : i <= j => ts[i] <= ts[j]}

\* The promise executor of one ladder entry: names the output and runs ffmpeg.
NewJob(res, folder, timestamp) ==
    LET outputFileName == "video_" \o res.name \o "_" \o ToString(timestamp)
                            \o ".mp4"
    IN  [name |-> res.name,
         outputFileName |-> outputFileName,
         outputFilePath |-> PathJoin(folder, outputFileName),
         state |-> "Running"]

\* uploadToPinata is called for one entry of transcodedFiles.
NewStoreCall(file) ==
    [name |-> file.name, path |-> file.path, state |-> "inflight"]

StoreOp(file) == [op |-> "store", path |-> file.path]

\* The content identifier the store answers with for the file at path.
IpfsHash(path) == "Qm:" \o path

\* The loop submits every file without awaiting the call before it.
PublishAllAtOnce(r, fs, pre, files, unlinkOk) ==
    IF files = <<>>
    THEN /\ Finish(r, fs, pre, SuccessResponse(ipfsCIDs[r]), unlinkOk)
         /\ UNCHANGED storeCalls
    ELSE /\ storeCalls' = [storeCalls EXCEPT ![r] =
                @ \o [k \in 1..Len(files) |-> NewStoreCall(files[k])]]
         /\ ops' = [ops EXCEPT ![r] =
                @ \o pre \o [k \in 1..Len(files) |-> StoreOp(files[k])]]
         /\ pc' = [pc EXCEPT ![r] = "uploading"]
         /\ fsys' = fs
         /\ UNCHANGED responses

\* A handler that treats an empty list of files as a failure.
PublishRejectsEmpty(r, fs, pre, files, unlinkOk) ==
    IF files = <<>>
    THEN /\ Finish(r, fs, pre, CatchResponse(ErrorObject("no renditions")),
                   unlinkOk)
         /\ UNCHANGED storeCalls
    ELSE /\ storeCalls' = [storeCalls EXCEPT ![r] =
                              Append(@, NewStoreCall(files[1]))]
         /\ ops' = [ops EXCEPT ![r] = @ \o pre \o <<StoreOp(files[1])>>]
         /\ pc' = [pc EXCEPT ![r] = "uploading"]
         /\ fsys' = fs
         /\ UNCHANGED responses

\* The handler continues after transcodeVideo returned files: the for loop
\* over them, which suspends in the first store call, or is over at once.
Publish(r, fs, pre, files, unlinkOk) ==
    IF files = <<>>
    THEN /\ Finish(r, fs, pre, SuccessResponse(ipfsCIDs[r]), unlinkOk)
         /\ UNCHANGED storeCalls
    ELSE /\ storeCalls' = [storeCalls EXCEPT ![r] =
                              Append(@, NewStoreCall(files[1]))]
         /\ ops' = [ops EXCEPT ![r] = @ \o pre \o <<StoreOp(files[1])>>]
         /\ pc' = [pc EXCEPT ![r] = "uploading"]
         /\ fsys' = fs
         /\ UNCHANGED responses

\* transcodeVideo up to its await: folder, ladder, one running job per entry.
Transcode(r, height) ==
    LET ladder == availableResolutions(height)
        exists == outputFolder[r] \in fsys
        fs     == fsys \cup {outputFolder[r]}
        mkdir  == IF exists THEN <<>>
                  ELSE <<[op |-> "mkdir", path |-> outputFolder[r]]>>
    IN  \E ts \in ClockReadings(Len(ladder)) :
          LET launched == [i \in 1..Len(ladder) |->
                             NewJob(ladder[i], outputFolder[r], ts[i])]
              pre == mkdir \o [i \in 1..Len(ladder) |->
                                 [op |-> "encode", name |-> launched[i].name,
                                  path |-> launched[i].outputFilePath]]
          IN  /\ now' = IF ladder = <<>> THEN now ELSE ts[Len(ladder)]
              /\ jobs' = [jobs EXCEPT ![r] = launched]
              /\ IF ladder = <<>>
                 THEN \* Promise.all of no promises is resolved already
                      \E unlinkOk \in BOOLEAN :
                          Publish(r, fs, pre, transcodedFiles[r], unlinkOk)
                 ELSE /\ fsys' = fs
                      /\ ops' = [ops EXCEPT ![r] = @ \o pre]
                      /\ pc' = [pc EXCEPT ![r] = "transcoding"]
                      /\ UNCHANGED <<responses, storeCalls>>

\* metadata.streams.find((s) => s.codec_type === "video")
videoStream(streams) ==
    LET found == {i \in 1..Len(streams) : streams[i].codec_type = "video"}
    IN  IF found = {} THEN <<>>
        ELSE <<streams[CHOOSE i \in found : \A j \in found : i <= j]>>

\* A probe that resolves with whatever height the first video stream has.
ProbeReturnAnyHeight(r) ==
    /\ pc[r] = "probing"
    /\ LET vs == videoStream(upload[r].streams)
       IN  IF vs # <<>>
           THEN /\ inputHeight' = [inputHeight EXCEPT ![r] = vs[1].height]
                /\ Transcode(r, vs[1].height)
           ELSE /\ \E unlinkOk \in BOOLEAN :
                     Finish(r, fsys, <<>>,
                            CatchResponse(StringValue(
                                "Could not determine video resolution.")),
                            unlinkOk)
                /\ UNCHANGED <<now, inputHeight, jobs, storeCalls>>
    /\ UNCHANGED <<upload, outputFolder, transcodedFiles, ipfsCIDs>>

\* ffprobe calls back with the metadata of the upload.
ProbeReturn(r) ==
    /\ pc[r] = "probing"
    /\ LET vs == videoStream(upload[r].streams)
       IN  IF vs # <<>> /\ vs[1].hasHeight /\ vs[1].height # 0
           THEN /\ inputHeight' = [inputHeight EXCEPT ![r] = vs[1].height]
                /\ Transcode(r, vs[1].height)
           ELSE /\ \E unlinkOk \in BOOLEAN :
                     Finish(r, fsys, <<>>,
                            CatchResponse(StringValue(
                                "Could not determine video resolution.")),
                            unlinkOk)
                /\ UNCHANGED <<now, inputHeight, jobs, storeCalls>>
    /\ UNCHANGED <<upload, outputFolder, transcodedFiles, ipfsCIDs>>

\* A join that is satisfied by the first job that succeeds.
SomeSucceeded(js) == \E i \in 1..Len(js) : js[i].state = "Succeeded"

AllSucceeded(js) == \A i \in 1..Len(js) : js[i].state = "Succeeded"

\* The last job to settle lets the handler go on, whatever came before.
EncodeEndResumes(r, i) ==
    /\ i \in 1..Len(jobs[r])
    /\ jobs[r][i].state = "Running"
    /\ LET js    == [jobs[r] EXCEPT ![i].state = "Succeeded"]
           files == Append(transcodedFiles[r],
                           [name |-> jobs[r][i].outputFileName,
                            path |-> jobs[r][i].outputFilePath])
           fs    == fsys \cup {jobs[r][i].outputFilePath}
       IN  /\ jobs' = [jobs EXCEPT ![r] = js]
           /\ transcodedFiles' = [transcodedFiles EXCEPT ![r] = files]
           /\ IF \A j \in 1..Len(js) : js[j].state # "Running"
              THEN \E unlinkOk \in BOOLEAN :
                       Publish(r, fs, <<>>, files, unlinkOk)
              ELSE /\ fsys' = fs
                   /\ UNCHANGED <<pc, responses, ops, storeCalls>>
    /\ UNCHANGED <<now, upload, outputFolder, inputHeight, ipfsCIDs>>

\* transcodeVideo's list holds the finished files in ladder order.
EncodeEndLadderOrder(r, i) ==
    /\ i \in 1..Len(jobs[r])
    /\ jobs[r][i].state = "Running"
    /\ LET js    == [jobs[r] EXCEPT ![i].state = "Succeeded"]
           ended == SelectSeq(js, LAMBDA j : j.state = "Succeeded")
           files == [k \in 1..Len(ended) |->
                       [name |-> ended[k].outputFileName,
                        path |-> ended[k].outputFilePath]]
           fs    == fsys \cup {jobs[r][i].outputFilePath}
       IN  /\ jobs' = [jobs EXCEPT ![r] = js]
           /\ transcodedFiles' = [transcodedFiles EXCEPT ![r] = files]
           /\ IF pc[r] = "transcoding" /\ AllSucceeded(js)
              THEN \E unlinkOk \in BOOLEAN :
                       Publish(r, fs, <<>>, files, unlinkOk)
              ELSE /\ fsys' = fs
                   /\ UNCHANGED <<pc, responses, ops, storeCalls>>
    /\ UNCHANGED <<now, upload, outputFolder, inputHeight, ipfsCIDs>>

\* ffmpeg's "end" event of job i: push the file, resolve the job's promise.
EncodeEnd(r, i) ==
    /\ i \in 1..Len(jobs[r])
    /\ jobs[r][i].state = "Running"
    /\ LET js    == [jobs[r] EXCEPT ![i].state = "Succeeded"]
           files == Append(transcodedFiles[r],
                           [name |-> jobs[r][i].outputFileName,
                            path |-> jobs[r][i].outputFilePath])
           fs    == fsys \cup {jobs[r][i].outputFilePath}
       IN  /\ jobs' = [jobs EXCEPT ![r] = js]
           /\ transcodedFiles' = [transcodedFiles EXCEPT ![r] = files]
           /\ IF pc[r] = "transcoding" /\ AllSucceeded(js)
              THEN \* Promise.all resolves and the handler goes on
                   \E unlinkOk \in BOOLEAN :
                       Publish(r, fs, <<>>, files, unlinkOk)
              ELSE /\ fsys' = fs
                   /\ UNCHANGED <<pc, responses, ops, storeCalls>>
    /\ UNCHANGED <<now, upload, outputFolder, inputHeight, ipfsCIDs>>

\* The error event settles the job without rejecting: the join then resolves
\* once every job is settled, with the files of the jobs that succeeded.
EncodeErrorSettles(r, i) ==
    /\ i \in 1..Len(jobs[r])
    /\ jobs[r][i].state = "Running"
    /\ LET js == [jobs[r] EXCEPT ![i].state = "Failed"]
       IN  /\ jobs' = [jobs EXCEPT ![r] = js]
           /\ IF /\ pc[r] = "transcoding"
                 /\ \A j \in 1..Len(js) : js[j].state # "Running"
              THEN \E unlinkOk \in BOOLEAN :
                       Publish(r, fsys, <<>>, transcodedFiles[r], unlinkOk)
              ELSE UNCHANGED <<pc, responses, ops, fsys, storeCalls>>
    /\ UNCHANGED <<now, upload, outputFolder, inputHeight, transcodedFiles,
                   ipfsCIDs>>

\* The join reports a failure only when every job has settled.
EncodeErrorWaits(r, i) ==
    /\ i \in 1..Len(jobs[r])
    /\ jobs[r][i].state = "Running"
    /\ LET js == [jobs[r] EXCEPT ![i].state = "Failed"]
       IN  /\ jobs' = [jobs EXCEPT ![r] = js]
           /\ IF /\ pc[r] = "transcoding"
                 /\ \A j \in 1..Len(js) : js[j].state # "Running"
              THEN \E unlinkOk \in BOOLEAN :
                       Finish(r, fsys, <<>>,
                              CatchResponse(ErrorObject("ffmpeg failed")),
                              unlinkOk)
              ELSE UNCHANGED <<pc, responses, ops, fsys>>
    /\ UNCHANGED <<now, upload, outputFolder, inputHeight, transcodedFiles,
                   storeCalls, ipfsCIDs>>

\* An error handler that logs the error and leaves the promise pending.
EncodeErrorIgnored(r, i) ==
    /\ i \in 1..Len(jobs[r])
    /\ jobs[r][i].state = "Running"
    /\ jobs' = [jobs EXCEPT ![r][i].state = "Failed"]
    /\ UNCHANGED <<now, fsys, upload, pc, outputFolder, inputHeight,
                   transcodedFiles, storeCalls, ipfsCIDs, responses, ops>>

\* ffmpeg's "error" event of job i: reject the job's promise.
EncodeError(r, i) ==
    /\ i \in 1..Len(jobs[r])
    /\ jobs[r][i].state = "Running"
    /\ jobs' = [jobs EXCEPT ![r][i].state = "Failed"]
    /\ IF pc[r] = "transcoding"
       THEN \* Promise.all rejects at the first rejection; catch, finally
            \E unlinkOk \in BOOLEAN :
                Finish(r, fsys, <<>>,
                       CatchResponse(ErrorObject("ffmpeg failed")), unlinkOk)
       ELSE UNCHANGED <<pc, responses, ops, fsys>>
    /\ UNCHANGED <<now, upload, outputFolder, inputHeight, transcodedFiles,
                   storeCalls, ipfsCIDs>>

\* The store answers call k with a content identifier.
StoreOk(r, k) ==
    /\ pc[r] = "uploading"
    /\ k \in 1..Len(storeCalls[r])
    /\ storeCalls[r][k].state = "inflight"
    /\ LET call == storeCalls[r][k]
           cids == (call.name :> [videoCID |-> IpfsHash(call.path)])
                      @@ ipfsCIDs[r]
           done == [storeCalls[r] EXCEPT ![k].state = "ok"]
           next == Len(done) + 1
       IN  /\ ipfsCIDs' = [ipfsCIDs EXCEPT ![r] = cids]
           /\ IF next <= Len(transcodedFiles[r])
              THEN LET file == transcodedFiles[r][next]
                   IN  /\ storeCalls' = [storeCalls EXCEPT ![r] =
                                            Append(done, NewStoreCall(file))]
                       /\ ops' = [ops EXCEPT ![r] = Append(@, StoreOp(file))]
                       /\ UNCHANGED <<pc, responses, fsys>>
              ELSE /\ storeCalls' = [storeCalls EXCEPT ![r] = done]
                   /\ \E unlinkOk \in BOOLEAN :
                        Finish(r, fsys, <<>>, SuccessResponse(cids), unlinkOk)
    /\ UNCHANGED <<now, upload, outputFolder, inputHeight, jobs,
                   transcodedFiles>>

\* The failed store call ends the loop, and what was published is sent.
StoreErrorSendsPartial(r, k) ==
    /\ pc[r] = "uploading"
    /\ k \in 1..Len(storeCalls[r])
    /\ storeCalls[r][k].state = "inflight"
    /\ storeCalls' = [storeCalls EXCEPT ![r][k].state = "failed"]
    /\ \E unlinkOk \in BOOLEAN :
         Finish(r, fsys, <<>>,
                [status |-> 500, error |-> "Processing failed",
                 details |-> "store failed", files |-> ipfsCIDs[r]],
                unlinkOk)
    /\ UNCHANGED <<now, upload, outputFolder, inputHeight, jobs,
                   transcodedFiles, ipfsCIDs>>

\* uploadToPinata logs the failure and returns nothing: the loop records an
\* entry without an identifier and goes on.
StoreErrorSwallowed(r, k) ==
    /\ pc[r] = "uploading"
    /\ k \in 1..Len(storeCalls[r])
    /\ storeCalls[r][k].state = "inflight"
    /\ LET call == storeCalls[r][k]
           cids == (call.name :> [videoCID |-> "undefined"]) @@ ipfsCIDs[r]
           done == [storeCalls[r] EXCEPT ![k].state = "failed"]
           next == Len(done) + 1
       IN  /\ ipfsCIDs' = [ipfsCIDs EXCEPT ![r] = cids]
           /\ IF next <= Len(transcodedFiles[r])
              THEN LET file == transcodedFiles[r][next]
                   IN  /\ storeCalls' = [storeCalls EXCEPT ![r] =
                                            Append(done, NewStoreCall(file))]
                       /\ ops' = [ops EXCEPT ![r] = Append(@, StoreOp(file))]
                       /\ UNCHANGED <<pc, responses, fsys>>
              ELSE /\ storeCalls' = [storeCalls EXCEPT ![r] = done]
                   /\ \E unlinkOk \in BOOLEAN :
                        Finish(r, fsys, <<>>, SuccessResponse(cids), unlinkOk)
    /\ UNCHANGED <<now, upload, outputFolder, inputHeight, jobs,
                   transcodedFiles>>

\* uploadToPinata submits the file a second time before it gives up.
StoreErrorRetries(r, k) ==
    /\ pc[r] = "uploading"
    /\ k \in 1..Len(storeCalls[r])
    /\ storeCalls[r][k].state = "inflight"
    /\ LET call  == storeCalls[r][k]
           done  == [storeCalls[r] EXCEPT ![k].state = "failed"]
           tries == {j \in 1..Len(done) : done[j].path = call.path}
       IN  IF Cardinality(tries) < 2
           THEN /\ storeCalls' = [storeCalls EXCEPT ![r] =
                     Append(done, [call EXCEPT !.state = "inflight"])]
                /\ ops' = [ops EXCEPT ![r] =
                     Append(@, [op |-> "store", path |-> call.path])]
                /\ UNCHANGED <<pc, responses, fsys>>
           ELSE /\ storeCalls' = [storeCalls EXCEPT ![r] = done]
                /\ \E unlinkOk \in BOOLEAN :
                     Finish(r, fsys, <<>>,
                            CatchResponse(ErrorObject("store failed")),
                            unlinkOk)
    /\ UNCHANGED <<now, upload, outputFolder, inputHeight, jobs,
                   transcodedFiles, ipfsCIDs>>

\* The store call k fails: uploadToPinata rethrows, the loop is abandoned.
StoreError(r, k) ==
    /\ pc[r] = "uploading"
    /\ k \in 1..Len(storeCalls[r])
    /\ storeCalls[r][k].state = "inflight"
    /\ storeCalls' = [storeCalls EXCEPT ![r][k].state = "failed"]
    /\ \E unlinkOk \in BOOLEAN :
         Finish(r, fsys, <<>>, CatchResponse(ErrorObject("store failed")),
                unlinkOk)
    /\ UNCHANGED <<now, upload, outputFolder, inputHeight, jobs,
                   transcodedFiles, ipfsCIDs>>

Next ==
    \E r \in Requests :
        \/ Receive(r)
        \/ ProbeError(r)
        \/ ProbeReturn(r)
        \/ \E i \in 1..Len(resolutions) : EncodeEnd(r, i)
        \/ \E i \in 1..Len(resolutions) : EncodeError(r, i)
        \/ \E k \in 1..Len(resolutions) : StoreOk(r, k)
        \/ \E k \in 1..Len(resolutions) : StoreError(r, k)

Spec == Init /\ [][Next]_vars

SpecTwo == InitTwo /\ [][Next]_vars

\* Every external call that was started ends: the inspection call, each
\* encode job and each store call calls back with its result or its error.
ExternalCallsTerminate ==
    \A r \in Requests :
        /\ WF_vars(ProbeError(r) \/ ProbeReturn(r))
        /\ \A i \in 1..Len(resolutions) :
              WF_vars(EncodeEnd(r, i) \/ EncodeError(r, i))
        /\ \A k \in 1..Len(resolutions) :
              WF_vars(StoreOk(r, k) \/ StoreError(r, k))

LiveSpec == Init /\ [][Next]_vars /\ ExternalCallsTerminate

TypeOK ==
    /\ now \in 1..MaxClock
    /\ \A r \in Requests :
         /\ pc[r] \in {"idle", "probing", "transcoding", "uploading", "done"}
         /\ Len(jobs[r]) <= Len(resolutions)

\* ------------------------------------------------------- shared vocabulary
HasFile(r) == upload[r].file

Indexes(seq) == 1..Len(seq)

JobNames(r) == [i \in Indexes(jobs[r]) |-> jobs[r][i].name]

\* The handler has received transcodeVideo's list: it started a store call
\* or sent the success response.
TranscodeReturned(r) ==
    \/ pc[r] = "uploading"
    \/ storeCalls[r] # <<>>
    \/ \E i \in Indexes(responses[r]) : responses[r][i].status = 200

SomeJobFailed(r) == \E i \in Indexes(jobs[r]) : jobs[r][i].state = "Failed"

IsFailureResponse(resp) ==
    resp.status = 500 /\ resp.error = "Processing failed"

\* The rendition names and frame heights as the specification lists them.
CatalogOrder == <<"1080p", "720p", "480p", "360p">>

FrameHeight == [n \in {"1080p", "720p", "480p", "360p"} |->
                  CASE n = "1080p" -> 1080
                    [] n = "720p"  -> 720
                    [] n = "480p"  -> 480
                    [] n = "360p"  -> 360]

CatalogPos(n) == CHOOSE p \in Indexes(CatalogOrder) : CatalogOrder[p] = n

\* ------------------------------------------------------------------ claims
\* C1: for every probed height H a catalog entry is in the ladder iff its
\* frame height is at most H, the ladder keeps catalog order, and H = 1080,
\* 500, 100 give [1080p,720p,480p,360p], [480p,360p] and the empty ladder.
C1_LadderSelection ==
    \A r \in Requests :
        inputHeight[r] # 0 =>
          LET H     == inputHeight[r]
              names == JobNames(r)
          IN  /\ \A p \in Indexes(CatalogOrder) :
                    (\E i \in Indexes(names) : names[i] = CatalogOrder[p])
                       <=> FrameHeight[CatalogOrder[p]] <= H
              /\ \A i \in Indexes(names), j \in Indexes(names) :
                    i < j => CatalogPos(names[i]) < CatalogPos(names[j])
              /\ H = 1080 => names = <<"1080p", "720p", "480p", "360p">>
              /\ H = 500 => names = <<"480p", "360p">>
              /\ H = 100 => names = <<>>

C1_Witness ==
    \E r \in Requests :
        inputHeight[r] = 500 /\ JobNames(r) = <<"480p", "360p">>

\* C2: when transcodeVideo returns, its list has one entry per ladder entry,
\* with pairwise distinct file names; when a job fails the handler gets the
\* failure and never uses the files of the jobs that succeeded.
C2_EncodeAllOrNothing ==
    \A r \in Requests :
        /\ TranscodeReturned(r) =>
              LET files == transcodedFiles[r]
              IN  /\ Len(files) = Len(jobs[r])
                  /\ \A i \in Indexes(jobs[r]) :
                        Cardinality({k \in Indexes(files) :
                            files[k].path = jobs[r][i].outputFilePath}) = 1
                  /\ \A k \in Indexes(files), l \in Indexes(files) :
                        k # l => files[k].name # files[l].name
        /\ SomeJobFailed(r) =>
              /\ ~TranscodeReturned(r)
              /\ storeCalls[r] = <<>>
              /\ ipfsCIDs[r] = EmptyObject
              /\ Len(responses[r]) = 1
              /\ IsFailureResponse(responses[r][1])
              /\ "files" \notin DOMAIN responses[r][1]

C2_Witness ==
    \E r \in Requests :
        /\ SomeJobFailed(r)
        /\ transcodedFiles[r] # <<>>
        /\ pc[r] = "done"

\* C3: when the i-th store call fails the response carries no files entry
\* at all, and no store call is started for the files after the i-th.
C3_PublisherAllOrNothing ==
    \A r \in Requests :
        \A i \in Indexes(storeCalls[r]) :
            storeCalls[r][i].state = "failed" =>
              /\ Len(responses[r]) = 1
              /\ IsFailureResponse(responses[r][1])
              /\ "files" \notin DOMAIN responses[r][1]
              /\ Len(storeCalls[r]) = i

C3_Witness ==
    \E r \in Requests :
        /\ Len(transcodedFiles[r]) >= 3
        /\ Len(storeCalls[r]) = 2
        /\ storeCalls[r][2].state = "failed"
        /\ DOMAIN ipfsCIDs[r] # {}

\* C4 as stated: once the handler of a request with a file has terminated,
\* the original upload has been deleted exactly once and is gone.
C4_CleanupAlwaysDeletes ==
    \A r \in Requests :
        (HasFile(r) /\ pc[r] = "done") =>
          /\ inputFile(r) \notin fsys
          /\ Cardinality({i \in Indexes(ops[r]) :
                 ops[r][i].op = "unlink" /\ ops[r][i].ok}) = 1

OpsOf(r, kind) == {i \in Indexes(ops[r]) : ops[r][i].op = kind}

\* C4 amended: the deletion of the original upload is attempted exactly
\* once, as the last step and only after the response was sent; the file is
\* on disk until then, and afterwards it is gone iff the deletion succeeded.
C4_CleanupBestEffort ==
    \A r \in Requests :
        HasFile(r) =>
          /\ Cardinality(OpsOf(r, "unlink")) <= 1
          /\ \A i \in OpsOf(r, "unlink") :
                /\ i = Len(ops[r])
                /\ \E j \in OpsOf(r, "respond") : j < i
                /\ ops[r][i].path = inputFile(r)
                /\ ops[r][i].ok <=> inputFile(r) \notin fsys
          /\ pc[r] = "done" => Cardinality(OpsOf(r, "unlink")) = 1
          /\ pc[r] \in {"probing", "transcoding", "uploading"} =>
                OpsOf(r, "unlink") = {} /\ inputFile(r) \in fsys

C4_Witness ==
    \E r \in Requests :
        /\ HasFile(r) /\ pc[r] = "done"
        /\ SomeJobFailed(r)
        /\ inputFile(r) \notin fsys

\* C5: encode jobs exist only after the probe succeeded and for the ladder
\* of the probed height, and a store call exists only when every encode
\* job of the request has succeeded.
C5_StageOrdering ==
    \A r \in Requests :
        /\ pc[r] \in {"idle", "probing"} =>
              jobs[r] = <<>> /\ OpsOf(r, "encode") = {}
        /\ jobs[r] # <<>> =>
              /\ inputHeight[r] # 0
              /\ Len(jobs[r]) = Len(availableResolutions(inputHeight[r]))
        /\ \A i \in OpsOf(r, "encode") :
              \E j \in OpsOf(r, "ffprobe") : j < i
        /\ (storeCalls[r] # <<>> \/ OpsOf(r, "store") # {}) =>
              /\ jobs[r] # <<>>
              /\ \A i \in Indexes(jobs[r]) : jobs[r][i].state = "Succeeded"

C5_Witness ==
    \E r \in Requests :
        /\ pc[r] = "uploading"
        /\ Len(jobs[r]) >= 2
        /\ storeCalls[r][1].state = "inflight"

\* C6: at most one store call is in flight, call k+1 exists only when call
\* k has succeeded, and the calls follow the order of transcodedFiles.
C6_PublisherSequential ==
    \A r \in Requests :
        /\ Cardinality({k \in Indexes(storeCalls[r]) :
               storeCalls[r][k].state = "inflight"}) <= 1
        /\ \A k \in Indexes(storeCalls[r]) :
               k < Len(storeCalls[r]) => storeCalls[r][k].state = "ok"
        /\ Len(storeCalls[r]) <= Len(transcodedFiles[r])
        /\ \A k \in Indexes(storeCalls[r]) :
               storeCalls[r][k].path = transcodedFiles[r][k].path
        /\ LET st == OpsOf(r, "store")
           IN  /\ Cardinality(st) = Len(storeCalls[r])
               /\ \A i \in st :
                     ops[r][i].path =
                       transcodedFiles[r][Cardinality({j \in st : j <= i})].path

C6_Witness ==
    \E r \in Requests :
        /\ Len(storeCalls[r]) = 3
        /\ storeCalls[r][3].state = "inflight"
        /\ \E k \in Indexes(jobs[r]) :
              transcodedFiles[r][k].path # jobs[r][k].outputFilePath

ProbeFailed(r) == HasFile(r) /\ pc[r] = "done" /\ inputHeight[r] = 0

SomeStoreFailed(r) ==
    \E k \in Indexes(storeCalls[r]) : storeCalls[r][k].state = "failed"

StageFailed(r) == ProbeFailed(r) \/ SomeJobFailed(r) \/ SomeStoreFailed(r)

\* C7: a request with a file gets no response while its handler runs and
\* exactly one when it is over; after a failure of any stage that response
\* is the "Processing failed" one, and the handler starts nothing after it
\* has responded, whatever the sibling jobs do later.
C7_FailureShortCircuit ==
    \A r \in Requests :
        HasFile(r) =>
          /\ Len(responses[r]) = (IF pc[r] = "done" THEN 1 ELSE 0)
          /\ Cardinality(OpsOf(r, "respond")) = Len(responses[r])
          /\ StageFailed(r) =>
                /\ Len(responses[r]) = 1
                /\ IsFailureResponse(responses[r][1])
          /\ \A i \in OpsOf(r, "respond"), j \in Indexes(ops[r]) :
                i < j => ops[r][j].op = "unlink"
          /\ Cardinality(OpsOf(r, "encode")) = Len(jobs[r])
          /\ Cardinality(OpsOf(r, "store")) = Len(storeCalls[r])

C7_Witness ==
    \E r \in Requests :
        /\ Len(jobs[r]) >= 2
        /\ SomeJobFailed(r)
        /\ \A i \in Indexes(jobs[r]) : jobs[r][i].state # "Running"
        /\ Len(transcodedFiles[r]) = Len(jobs[r]) - 1

\* The inspection reported no video stream, or one without a height.
NoVideoOrNoHeight(streams) ==
    \/ \A i \in Indexes(streams) : streams[i].codec_type # "video"
    \/ \E i \in Indexes(streams) :
          /\ streams[i].codec_type = "video"
          /\ \A j \in 1..(i - 1) : streams[j].codec_type # "video"
          /\ ~streams[i].hasHeight

\* C8: a request whose probe failed ends with the failure response, has no
\* encode job, never made its output folder and wrote no file; a probe that
\* reports no video stream or no height always fails.
C8_ProbeFailureWritesNothing ==
    \A r \in Requests :
        /\ (HasFile(r) /\ NoVideoOrNoHeight(upload[r].streams)) =>
              /\ pc[r] \in {"idle", "probing", "done"}
              /\ inputHeight[r] = 0
        /\ ProbeFailed(r) =>
              /\ Len(responses[r]) = 1
              /\ IsFailureResponse(responses[r][1])
              /\ jobs[r] = <<>>
              /\ transcodedFiles[r] = <<>>
              /\ storeCalls[r] = <<>>
              /\ OpsOf(r, "mkdir") = {}
              /\ OpsOf(r, "encode") = {}
              /\ (\A q \in Requests \ {r} :
                     jobs[q] = <<>> /\ OpsOf(q, "mkdir") = {}) =>
                    fsys \subseteq
                      {outputDir} \cup {inputFile(q) : q \in Requests}

C8_Witness ==
    \E r \in Requests :
        /\ upload[r].streams = <<VideoNoHeight>>
        /\ ProbeFailed(r)

\* C9: a probed height below every catalog height gives no encode job and
\* no store call, and the success response with an empty files mapping.
C9_EmptyLadderIsSuccess ==
    \A r \in Requests :
        (/\ inputHeight[r] # 0
         /\ \A p \in Indexes(CatalogOrder) :
               inputHeight[r] < FrameHeight[CatalogOrder[p]]) =>
          /\ jobs[r] = <<>>
          /\ storeCalls[r] = <<>>
          /\ OpsOf(r, "encode") = {} /\ OpsOf(r, "store") = {}
          /\ pc[r] = "done"
          /\ Len(responses[r]) = 1
          /\ responses[r][1].status = 200
          /\ DOMAIN responses[r][1] = {"status", "message", "files"}
          /\ responses[r][1].message = "Processing complete"
          /\ DOMAIN responses[r][1].files = {}

C9_Witness ==
    \E r \in Requests :
        /\ inputHeight[r] = 300
        /\ pc[r] = "done"
        /\ responses[r][1].status = 200

\* C10: two different requests never share a working directory, and two of
\* their encode jobs for the same rendition never share an output path.
C10_OutputPathsUnique ==
    \A r \in Requests, q \in Requests :
        (r # q /\ outputFolder[r] # "" /\ outputFolder[q] # "") =>
          /\ outputFolder[r] # outputFolder[q]
          /\ \A i \in Indexes(jobs[r]), j \in Indexes(jobs[q]) :
                jobs[r][i].name = jobs[q][j].name =>
                  jobs[r][i].outputFilePath # jobs[q][j].outputFilePath

SomeJobRunning(r) == \E i \in Indexes(jobs[r]) : jobs[r][i].state = "Running"

\* C11 as stated: the handler has the outcome of transcodeVideo, success or
\* failure, only when no encode job of the request is still running.
C11_JoinWaitsForAll ==
    \A r \in Requests :
        pc[r] \in {"uploading", "done"} => ~SomeJobRunning(r)

\* C11 amended: the success list is delivered only when every job has
\* succeeded; a failure is delivered at the first job that fails, without
\* waiting for the siblings, so the handler waits only while no job has
\* failed.
C11_JoinRejectsAtFirstFailure ==
    \A r \in Requests :
        /\ TranscodeReturned(r) =>
              \A i \in Indexes(jobs[r]) : jobs[r][i].state = "Succeeded"
        /\ pc[r] = "transcoding" => ~SomeJobFailed(r) /\ SomeJobRunning(r)
        /\ SomeJobFailed(r) =>
              pc[r] = "done" /\ IsFailureResponse(responses[r][1])

C11_Witness ==
    \E r \in Requests :
        /\ pc[r] = "done"
        /\ SomeJobFailed(r)
        /\ SomeJobRunning(r)
        /\ IsFailureResponse(responses[r][1])

FileOfJob(job) == [name |-> job.outputFileName, path |-> job.outputFilePath]

\* C12: every end event appends the file of its job at the end of
\* transcodedFiles, nothing else changes that list, and the store calls are
\* issued in the order of the list, that is in completion order.
C12_CompletionOrder ==
    [][\A r \in Requests :
         /\ \A i \in Indexes(jobs[r]) :
               (jobs[r][i].state = "Running"
                  /\ jobs'[r][i].state = "Succeeded") =>
                 transcodedFiles'[r] =
                    Append(transcodedFiles[r], FileOfJob(jobs[r][i]))
         /\ (\A i \in Indexes(jobs[r]) :
                ~(jobs[r][i].state = "Running"
                    /\ jobs'[r][i].state = "Succeeded")) =>
               transcodedFiles'[r] = transcodedFiles[r]
         /\ \A k \in Indexes(storeCalls'[r]) :
               storeCalls'[r][k].path = transcodedFiles'[r][k].path]_vars

C12_Witness ==
    \E r \in Requests :
        /\ Len(jobs[r]) >= 2
        /\ Len(storeCalls[r]) = Len(jobs[r])
        /\ \A k \in Indexes(storeCalls[r]) : storeCalls[r][k].state = "ok"
        /\ transcodedFiles[r][1].path = jobs[r][2].outputFilePath
        /\ storeCalls[r][1].path = jobs[r][2].outputFilePath

\* C13: ipfsCIDs has at most one entry per encode job; every entry is keyed
\* by the file of exactly one job, that job succeeded and its store call
\* succeeded and gave the entry's identifier; there are as many entries as
\* successful store calls.
C13_PublishedMapping ==
    \A r \in Requests :
        LET keys    == DOMAIN ipfsCIDs[r]
            okCalls == {k \in Indexes(storeCalls[r]) :
                          storeCalls[r][k].state = "ok"}
        IN  /\ Cardinality(keys) <= Len(jobs[r])
            /\ Cardinality(keys) = Cardinality(okCalls)
            /\ \A key \in keys :
                  /\ Cardinality({i \in Indexes(jobs[r]) :
                         jobs[r][i].outputFileName = key}) = 1
                  /\ \A i \in Indexes(jobs[r]) :
                         jobs[r][i].outputFileName = key =>
                           jobs[r][i].state = "Succeeded"
                  /\ \E k \in okCalls :
                         /\ storeCalls[r][k].name = key
                         /\ ipfsCIDs[r][key] =
                              [videoCID |-> "Qm:" \o storeCalls[r][k].path]

C13_Witness ==
    \E r \in Requests :
        /\ Cardinality(DOMAIN ipfsCIDs[r]) = 2
        /\ Len(storeCalls[r]) = 3
        /\ storeCalls[r][3].state = "failed"

\* C14: every failure response of a request with a file has the error
\* "Processing failed" and a details field holding the failure's message.
C14_DetailsCarryMessage ==
    \A r \in Requests :
        (HasFile(r) /\ StageFailed(r)) =>
          /\ Len(responses[r]) = 1
          /\ IsFailureResponse(responses[r][1])
          /\ "details" \in DOMAIN responses[r][1]
          /\ responses[r][1].details \in
                {"ffprobe failed", "Could not determine video resolution.",
                 "ffmpeg failed", "store failed"}

UnlinkFailed(r) == \E i \in OpsOf(r, "unlink") : ~ops[r][i].ok

\* C15: when the deletion of the original upload fails, the handler is over
\* all the same, the file stays, and the one response sent is the one the
\* pipeline outcome determines: the failure response after a failed stage,
\* the success response with the published mapping otherwise.
C15_CleanupFailureContained ==
    \A r \in Requests :
        UnlinkFailed(r) =>
          /\ pc[r] = "done"
          /\ inputFile(r) \in fsys
          /\ Len(responses[r]) = 1
          /\ Cardinality(OpsOf(r, "respond")) = 1
          /\ IF StageFailed(r)
             THEN /\ IsFailureResponse(responses[r][1])
                  /\ "files" \notin DOMAIN responses[r][1]
             ELSE /\ responses[r][1].status = 200
                  /\ responses[r][1].message = "Processing complete"
                  /\ responses[r][1].files = ipfsCIDs[r]
                  /\ Cardinality(DOMAIN ipfsCIDs[r]) = Len(jobs[r])

C15_Witness ==
    \E r \in Requests :
        /\ UnlinkFailed(r)
        /\ responses[r][1].status = 200
        /\ Len(jobs[r]) >= 2

\* C16: when every external call terminates, a request with a file whose
\* handler has started eventually has its response sent and the deletion of
\* its upload performed.
C16_EventualResponse ==
    \A r \in Requests :
        (HasFile(r) /\ pc[r] = "probing") ~>
            (/\ pc[r] = "done"
             /\ Len(responses[r]) = 1
             /\ OpsOf(r, "unlink") # {})

C16_Witness ==
    \E r \in Requests :
        /\ HasFile(r) /\ pc[r] = "done"
        /\ Len(jobs[r]) >= 2
        /\ Len(responses[r]) = 1
        /\ \E i \in OpsOf(r, "respond") : \E j \in OpsOf(r, "unlink") : i < j

\* C17: a request makes at most one inspection call, one encode call per
\* selected rendition and one store call per transcoded file, and a call
\* that failed is never made again.
C17_NoRetries ==
    \A r \in Requests :
        /\ Cardinality(OpsOf(r, "ffprobe")) <= 1
        /\ \A i \in OpsOf(r, "encode"), j \in OpsOf(r, "encode") :
              i # j => ops[r][i].name # ops[r][j].name
        /\ \A i \in Indexes(jobs[r]), j \in Indexes(jobs[r]) :
              i # j => jobs[r][i].name # jobs[r][j].name
        /\ Cardinality(OpsOf(r, "encode")) = Len(jobs[r])
        /\ \A i \in OpsOf(r, "store"), j \in OpsOf(r, "store") :
              i # j => ops[r][i].path # ops[r][j].path
        /\ \A k \in Indexes(storeCalls[r]), l \in Indexes(storeCalls[r]) :
              k # l => storeCalls[r][k].path # storeCalls[r][l].path
        /\ Cardinality(OpsOf(r, "store")) = Len(storeCalls[r])
        /\ Len(storeCalls[r]) <= Len(transcodedFiles[r])
        /\ \A k \in Indexes(storeCalls[r]) :
              storeCalls[r][k].state = "failed" => k = Len(storeCalls[r])

C17_Witness ==
    \E r \in Requests :
        /\ Len(storeCalls[r]) = 2
        /\ storeCalls[r][2].state = "failed"
        /\ Len(transcodedFiles[r]) = 4
        /\ pc[r] = "done"

\* C18: a step removes no path other than an original upload, and in every
\* state the folder of a request that launched jobs and the artifact of
\* every succeeded job are on disk, also after the response and in a request
\* that failed.
C18_ArtifactsStay ==
    [][/\ (fsys \ fsys') \subseteq {inputFile(r) : r \in Requests}
       /\ \A r \in Requests :
            /\ \A i \in Indexes(ops'[r]) :
                  ops'[r][i].op = "mkdir" => ops'[r][i].path \in fsys'
            /\ inputHeight'[r] # 0 => outputFolder'[r] \in fsys'
            /\ \A i \in Indexes(jobs'[r]) :
                  jobs'[r][i].state = "Succeeded" =>
                    jobs'[r][i].outputFilePath \in fsys']_vars

C18_Witness ==
    \E r \in Requests :
        /\ pc[r] = "done"
        /\ IsFailureResponse(responses[r][1])
        /\ inputFile(r) \notin fsys
        /\ outputFolder[r] \in fsys
        /\ \E i \in Indexes(jobs[r]) :
              /\ jobs[r][i].state = "Succeeded"
              /\ jobs[r][i].outputFilePath \in fsys

\* C19: once the original upload has been removed, no encode job of the
\* request is still running and reading it.
C19_InputOutlivesEncoders ==
    \A r \in Requests :
        (HasFile(r) /\ pc[r] # "idle" /\ inputFile(r) \notin fsys) =>
            ~SomeJobRunning(r)

\* C20: a request without a file gets the one response 400 "No file
\* uploaded" and nothing else happens for it: no inspection call, no folder,
\* no encode job, no store call and no deletion.
C20_NoFileRejected ==
    \A r \in Requests :
        ~HasFile(r) =>
          /\ pc[r] \in {"idle", "done"}
          /\ pc[r] = "idle" => responses[r] = <<>> /\ ops[r] = <<>>
          /\ pc[r] = "done" =>
                /\ responses[r] =
                     <<[status |-> 400, error |-> "No file uploaded"]>>
                /\ Len(ops[r]) = 1
                /\ ops[r][1].op = "respond"
          /\ OpsOf(r, "ffprobe") = {} /\ OpsOf(r, "mkdir") = {}
          /\ OpsOf(r, "encode") = {} /\ OpsOf(r, "store") = {}
          /\ OpsOf(r, "unlink") = {}
          /\ outputFolder[r] = "" /\ inputHeight[r] = 0
          /\ jobs[r] = <<>> /\ transcodedFiles[r] = <<>>
          /\ storeCalls[r] = <<>> /\ ipfsCIDs[r] = EmptyObject
          /\ (\A q \in Requests : ~HasFile(q)) => fsys = {outputDir}

C20_Witness ==
    \E r \in Requests :
        /\ ~HasFile(r) /\ pc[r] = "done"
        /\ responses[r][1].status = 400
        /\ \A q \in Requests : ~HasFile(q) /\ pc[q] = "done"

====
